---- MODULE Spec2Model ----
(***************************************************************************)
(* doc/scripts/gen_mon_command_api.py: the generator of the monitor        *)
(* command reference.  A manifest of command records is turned into        *)
(* CmdCommand objects (each with its CmdParam objects and its Flags),      *)
(* the hidden commands are dropped, the rest is sorted by signature and    *)
(* rendered, one section per command.                                      *)
(*                                                                         *)
(* A Python str is modelled as the sequence of its characters, each a      *)
(* one-character string; None and True are values that are no str.         *)
(***************************************************************************)
EXTENDS Integers, Sequences, FiniteSets, TLC

VARIABLES
    fs,       \* SpecFlags: the mask of the Flags object under test
    kw,       \* SpecParam: the raw parameter descriptor (the keyword arguments)
    param,    \* SpecParam: <<the CmdParam built from kw>>, <<>> before that
    entry,    \* SpecCommand: the raw command record
    cmd,      \* SpecCommand: <<the CmdCommand built from entry>>, <<>> before that
    call,     \* the method called last, with its arguments
    ret,      \* what that call returned
    all,      \* Spec: the manifest handed to mk_sigs
    sigs,     \* Spec: the local variable sigs of mk_sigs
    pc,       \* Spec: the position of mk_sigs
    msg,      \* Spec: the sections the template has rendered so far
    stdout,   \* Spec: what print() has written
    err       \* Spec: the exception that ended the run, or None

vars == <<fs, kw, param, entry, cmd, call, ret, all, sigs, pc, msg, stdout, err>>

-----------------------------------------------------------------------------
(* Python values and str operations *)

\* The backquote character, which a TLA+ string cannot hold.
BQ == "backquote"

\* None: distinct from every str (its element is no character).
None == <<"None">>

\* The bool True as a keyword default (req=True): no str either.
True == <<"True">>

\* The truth value of an optional str: None and '' are false.
Truthy(v) == v # None /\ v # <<>>

\* ord() of the characters that are compared.
Ord ==
    "0" :> 48 @@ "1" :> 49 @@ "2" :> 50 @@ "3" :> 51 @@ "4" :> 52 @@
    "5" :> 53 @@ "6" :> 54 @@ "7" :> 55 @@ "8" :> 56 @@ "9" :> 57 @@
    "_" :> 95 @@ "a" :> 97 @@ "b" :> 98 @@ "c" :> 99 @@ "d" :> 100 @@
    "e" :> 101 @@ "f" :> 102 @@ "g" :> 103 @@ "h" :> 104 @@ "i" :> 105 @@
    "j" :> 106 @@ "k" :> 107 @@ "l" :> 108 @@ "m" :> 109 @@ "n" :> 110 @@
    "o" :> 111 @@ "p" :> 112 @@ "q" :> 113 @@ "r" :> 114 @@ "s" :> 115 @@
    "t" :> 116 @@ "u" :> 117 @@ "v" :> 118 @@ "w" :> 119 @@ "x" :> 120 @@
    "y" :> 121 @@ "z" :> 122

\* a < b on str: by code point, a proper prefix first.
RECURSIVE StrLess(_, _)
StrLess(a, b) ==
    IF b = <<>> THEN FALSE
    ELSE IF a = <<>> THEN TRUE
    ELSE IF Head(a) # Head(b) THEN Ord[Head(a)] < Ord[Head(b)]
    ELSE StrLess(Tail(a), Tail(b))

\* sep.join(xs) for a list xs of str.
RECURSIVE Join(_, _)
Join(sep, xs) ==
    IF xs = <<>> THEN <<>>
    ELSE IF Len(xs) = 1 THEN xs[1]
    ELSE xs[1] \o sep \o Join(sep, Tail(xs))

\* s.split(sep) for a one-character sep: the pieces between the separators.
RECURSIVE Split(_, _)
Split(s, sep) ==
    IF \A i \in 1..Len(s) : s[i] # sep THEN <<s>>
    ELSE LET i == CHOOSE j \in 1..Len(s) :
                      s[j] = sep /\ \A k \in 1..(j - 1) : s[k] # sep
         IN <<SubSeq(s, 1, i - 1)>> \o Split(SubSeq(s, i + 1, Len(s)), sep)

\* a in b on str: a is a substring of b.
In(a, b) == \E i \in 0..(Len(b) - Len(a)) : SubSeq(b, i + 1, i + Len(a)) = a

\* x & k on Python's unbounded two's-complement int, for k >= 0.
RECURSIVE PyAnd(_, _)
PyAnd(x, k) ==
    IF k = 0 THEN 0
    ELSE (x % 2) * (k % 2) + 2 * PyAnd(x \div 2, k \div 2)

\* One step of sorted() on a list of str: x goes after every element that is
\* not greater.
RECURSIVE InsertStr(_, _)
InsertStr(x, xs) ==
    IF xs = <<>> THEN <<x>>
    ELSE IF StrLess(x, xs[1]) THEN <<x>> \o xs
    ELSE <<xs[1]>> \o InsertStr(x, Tail(xs))

Reverse(xs) == [i \in 1..Len(xs) |-> xs[Len(xs) + 1 - i]]

\* sorted(S) for a set S of str: the set is iterated in some order, then sorted.
RECURSIVE SortedSet(_)
SortedSet(S) ==
    IF S = {} THEN <<>>
    ELSE LET x == CHOOSE y \in S : TRUE
         IN InsertStr(x, SortedSet(S \ {x}))

-----------------------------------------------------------------------------
(* class Flags *)

NOFORWARD == 2 ^ 0
OBSOLETE == 2 ^ 1
DEPRECATED == 2 ^ 2
MGR == 2 ^ 3
POLL == 2 ^ 4
HIDDEN == 2 ^ 5

s_no_forward == <<"n", "o", "_", "f", "o", "r", "w", "a", "r", "d">>
s_obsolete == <<"o", "b", "s", "o", "l", "e", "t", "e">>
s_deprecated == <<"d", "e", "p", "r", "e", "c", "a", "t", "e", "d">>
s_mgr == <<"m", "g", "r">>
s_poll == <<"p", "o", "l", "l">>
s_hidden == <<"h", "i", "d", "d", "e", "n">>

\* A table that gives a manager flag a name contained in another flag's name.
VALS_overlapping ==
    (NOFORWARD :> s_no_forward @@ OBSOLETE :> s_obsolete @@
     DEPRECATED :> s_deprecated @@ MGR :> <<"f", "o", "r", "w", "a", "r", "d">> @@
     POLL :> s_poll @@ HIDDEN :> s_hidden)

VALS ==
    (NOFORWARD :> s_no_forward @@ OBSOLETE :> s_obsolete @@
     DEPRECATED :> s_deprecated @@ MGR :> s_mgr @@
     POLL :> s_poll @@ HIDDEN :> s_hidden)

\* The names joined in the order of the table, not sorted.
RECURSIVE NamesFrom(_, _)
NamesFrom(mask, k) ==
    IF k > HIDDEN THEN <<>>
    ELSE (IF PyAnd(mask, k) = k THEN <<VALS[k]>> ELSE <<>>) \o NamesFrom(mask, 2 * k)

Flags_str_unsorted(mask) == Join(<<",", " ">>, NamesFrom(mask, NOFORWARD))

\* Flags.__str__
Flags_str(mask) ==
    LET keys == DOMAIN VALS
        es == {VALS[k] : k \in {k \in keys : PyAnd(mask, k) = k}}
    IN Join(<<",", " ">>, SortedSet(es))

\* Flags.__contains__
Flags_contains(mask, other) == In(other, Flags_str(mask))

\* Flags.__bool__
Flags_bool(mask) == Flags_str(mask) # <<>>

-----------------------------------------------------------------------------
(* SpecFlags: one Flags object, built from any mask, and its three methods *)

\* Masks run from -2^MaskBits to 2^MaskBits - 1: the six known bits, unknown
\* bits above them, and negative ints.
MaskBits == 7

Masks == (-(2 ^ MaskBits))..(2 ^ MaskBits - 1)

FlagNames == {VALS[k] : k \in DOMAIN VALS}

InitFlags ==
    /\ fs \in Masks
    /\ call = <<"__init__">>
    /\ ret = None
    /\ kw = None /\ param = <<>> /\ entry = None /\ cmd = <<>>
    /\ all = None /\ sigs = None /\ pc = None /\ msg = None
    /\ stdout = None /\ err = None

FlagsStr ==
    /\ call' = <<"__str__">>
    /\ ret' = Flags_str(fs)
    /\ UNCHANGED <<fs, kw, param, entry, cmd, all, sigs, pc, msg, stdout, err>>

FlagsContains ==
    \E other \in FlagNames :
        /\ call' = <<"__contains__", other>>
        /\ ret' = Flags_contains(fs, other)
        /\ UNCHANGED <<fs, kw, param, entry, cmd, all, sigs, pc, msg, stdout, err>>

FlagsBool ==
    /\ call' = <<"__bool__">>
    /\ ret' = Flags_bool(fs)
    /\ UNCHANGED <<fs, kw, param, entry, cmd, all, sigs, pc, msg, stdout, err>>

NextFlags == FlagsStr \/ FlagsContains \/ FlagsBool

SpecFlags == InitFlags /\ [][NextFlags]_vars

\* Bit number j of the two's-complement integer mask is set.
BitSet(mask, j) == (mask \div (2 ^ j)) % 2 = 1

\* The six names in alphabetical order, each with the number of its bit.
AlphaNames ==
    << <<2, s_deprecated>>, <<5, s_hidden>>, <<3, s_mgr>>,
       <<0, s_no_forward>>, <<1, s_obsolete>>, <<4, s_poll>> >>

RECURSIVE ExpectedText(_, _)
ExpectedText(mask, i) ==
    IF i > Len(AlphaNames) THEN <<>>
    ELSE LET rest == ExpectedText(mask, i + 1)
         IN IF ~BitSet(mask, AlphaNames[i][1]) THEN rest
            ELSE IF rest = <<>> THEN AlphaNames[i][2]
            ELSE AlphaNames[i][2] \o <<",", " ">> \o rest

\* C4: for every integer mask, str(Flags(mask)) is the names of the known bits
\* set in the mask, in alphabetical order, joined with ", "; the bits outside
\* the six known ones do not change it; and Flags(mask) is truthy if and only
\* if a known bit is set.
C4_FlagSetDecodes ==
    /\ call[1] = "__str__" =>
          /\ ret = ExpectedText(fs, 1)
          /\ ret = Flags_str(fs % 64)
    /\ call[1] = "__bool__" => (ret <=> \E j \in 0..5 : BitSet(fs, j))

\* A mask with an unknown bit and the known bits no_forward and hidden, whose
\* text is sorted against the order of the bits.
C4_Witness ==
    /\ call[1] = "__str__"
    /\ fs = NOFORWARD + HIDDEN + 64
    /\ ret = s_hidden \o <<",", " ">> \o s_no_forward

\* C10: for every mask and every known flag name, `name in Flags(mask)` is true
\* if and only if the bit of that name is set in the mask.
C10_ContainsIsMembership ==
    call[1] = "__contains__" =>
        \A k \in DOMAIN VALS :
            VALS[k] = call[2] => (ret <=> (fs \div k) % 2 = 1)

\* The test answers no for a name that is absent from a text of five names.
C10_Witness ==
    /\ call = <<"__contains__", s_mgr>>
    /\ fs = NOFORWARD + OBSOLETE + DEPRECATED + POLL + HIDDEN
    /\ ret = FALSE

-----------------------------------------------------------------------------
(* class CmdParam *)

\* An exception raised by a call, in the place of its result.
KeyError == <<"KeyError">>
AssertionError == <<"AssertionError">>

s_CephInt == <<"C", "e", "p", "h", "I", "n", "t">>
s_CephString == <<"C", "e", "p", "h", "S", "t", "r", "i", "n", "g">>
s_CephChoices == <<"C", "e", "p", "h", "C", "h", "o", "i", "c", "e", "s">>
s_CephPgid == <<"C", "e", "p", "h", "P", "g", "i", "d">>
s_CephOsdName == <<"C", "e", "p", "h", "O", "s", "d", "N", "a", "m", "e">>
s_CephPoolname == <<"C", "e", "p", "h", "P", "o", "o", "l", "n", "a", "m", "e">>
s_CephObjectname == <<"C", "e", "p", "h", "O", "b", "j", "e", "c", "t", "n", "a", "m", "e">>
s_CephUUID == <<"C", "e", "p", "h", "U", "U", "I", "D">>
s_CephEntityAddr == <<"C", "e", "p", "h", "E", "n", "t", "i", "t", "y", "A", "d", "d", "r">>
s_CephIPAddr == <<"C", "e", "p", "h", "I", "P", "A", "d", "d", "r">>
s_CephName == <<"C", "e", "p", "h", "N", "a", "m", "e">>
s_CephBool == <<"C", "e", "p", "h", "B", "o", "o", "l">>
s_CephFloat == <<"C", "e", "p", "h", "F", "l", "o", "a", "t">>
s_CephFilepath == <<"C", "e", "p", "h", "F", "i", "l", "e", "p", "a", "t", "h">>

s_who == <<"w", "h", "o">>
s_false == <<"f", "a", "l", "s", "e">>
s_N == <<"N">>

\* CmdParam.bash_example
bash_example ==
    (s_CephInt :> <<"1">> @@
     s_CephString :> <<"s", "t", "r", "i", "n", "g">> @@
     s_CephChoices :> <<"c", "h", "o", "i", "c", "e">> @@
     s_CephPgid :> <<"0">> @@
     s_CephOsdName :> <<"o", "s", "d", ".", "0">> @@
     s_CephPoolname :> <<"p", "o", "o", "l", "n", "a", "m", "e">> @@
     s_CephObjectname :> <<"o", "b", "j", "e", "c", "t", "n", "a", "m", "e">> @@
     s_CephUUID :> <<"u", "u", "i", "d">> @@
     s_CephEntityAddr :> <<"e", "n", "t", "i", "t", "y", "a", "d", "d", "r">> @@
     s_CephIPAddr :> <<"0", ".", "0", ".", "0", ".", "0">> @@
     s_CephName :> <<"n", "a", "m", "e">> @@
     s_CephBool :> <<"t", "r", "u", "e">> @@
     s_CephFloat :> <<"0", ".", "0">> @@
     s_CephFilepath :> <<"/", "p", "a", "t", "h", "/", "t", "o", "/", "f", "i", "l", "e">>)

\* A lookup that falls back on the example of a plain string.
Lookup_default(d, k) == IF k \in DOMAIN d THEN d[k] ELSE d[s_CephString]

\* A construction without the assert.
CmdCommand_init_never_raises(e) == FALSE

\* d[k] of a dict d: the value, or KeyError.
Lookup(d, k) == IF k \in DOMAIN d THEN d[k] ELSE KeyError

\* CmdParam.__init__, before its assert: the object's attributes.  A keyword
\* that the descriptor does not give holds its default in d.
CmdParam_init(d) ==
    [type |-> d.type,
     name |-> d.name,
     who |-> d.who,
     n |-> (d.n = s_N),
     req |-> (d.req # s_false),
     range |-> IF Truthy(d.range) THEN Split(d.range, "|") ELSE <<>>,
     strings |-> IF Truthy(d.strings) THEN Split(d.strings, "|") ELSE <<>>,
     goodchars |-> d.goodchars]

\* help() with the "(string)" marker appended to every result.
help_always_marker(p) ==
    LET advanced ==
            (IF p.type # s_CephString THEN <<p.type \o <<" ">> >> ELSE <<>>)
            \o (IF p.range # <<>>
                THEN << <<"r", "a", "n", "g", "e", "=", " ", BQ, BQ>> \o Join(<<".", ".">>, p.range) \o <<BQ, BQ, " ">> >>
                ELSE <<>>)
            \o (IF p.strings # <<>>
                THEN << <<"s", "t", "r", "i", "n", "g", "s", "=", "(">> \o Join(<<" ">>, p.strings) \o <<")", " ">> >>
                ELSE <<>>)
            \o (IF Truthy(p.goodchars)
                THEN << <<"g", "o", "o", "d", "c", "h", "a", "r", "s", "=", " ", BQ, BQ>> \o p.goodchars \o <<BQ, BQ, " ">> >>
                ELSE <<>>)
            \o (IF p.n THEN << <<"(", "c", "a", "n", " ", "b", "e", " ", "r", "e", "p", "e", "a", "t", "e", "d", ")">> >> ELSE <<>>)
    IN Join(<<" ">>, advanced \o << <<"(", "s", "t", "r", "i", "n", "g", ")">> >>)

\* CmdParam.help
help(p) ==
    LET advanced ==
            (IF p.type # s_CephString THEN <<p.type \o <<" ">> >> ELSE <<>>)
            \o (IF p.range # <<>>
                THEN << <<"r", "a", "n", "g", "e", "=", " ", BQ, BQ>> \o Join(<<".", ".">>, p.range) \o <<BQ, BQ, " ">> >>
                ELSE <<>>)
            \o (IF p.strings # <<>>
                THEN << <<"s", "t", "r", "i", "n", "g", "s", "=", "(">> \o Join(<<" ">>, p.strings) \o <<")", " ">> >>
                ELSE <<>>)
            \o (IF Truthy(p.goodchars)
                THEN << <<"g", "o", "o", "d", "c", "h", "a", "r", "s", "=", " ", BQ, BQ>> \o p.goodchars \o <<BQ, BQ, " ">> >>
                ELSE <<>>)
            \o (IF p.n THEN << <<"(", "c", "a", "n", " ", "b", "e", " ", "r", "e", "p", "e", "a", "t", "e", "d", ")">> >> ELSE <<>>)
    IN Join(<<" ">>, IF advanced # <<>> THEN advanced ELSE << <<"(", "s", "t", "r", "i", "n", "g", ")">> >>)

\* CmdParam.mk_example_value
mk_example_value(p) ==
    IF p.type = s_CephChoices /\ p.strings # <<>> THEN p.strings[1]
    ELSE IF p.range # <<>> THEN p.range[1]
    ELSE Lookup(bash_example, p.type)

\* mk_bash_example that returns the example value in the simple mode too.
CmdParam_mk_bash_example_val(p, simple) ==
    LET val == mk_example_value(p)
    IN IF val = KeyError THEN KeyError
       ELSE IF p.type = s_CephBool THEN <<"-", "-">> \o p.name
       ELSE IF simple THEN val
       ELSE <<"-", "-">> \o p.name \o <<"=">> \o val

\* CmdParam.mk_bash_example
CmdParam_mk_bash_example(p, simple) ==
    LET val == mk_example_value(p)
    IN IF val = KeyError THEN KeyError
       ELSE IF p.type = s_CephBool THEN <<"-", "-">> \o p.name
       ELSE IF simple
            THEN IF p.type = s_CephChoices /\ p.strings # <<>> THEN val
                 ELSE IF p.type = s_CephString /\ p.name # s_who
                      THEN <<"m", "y", "_">> \o p.name
                 ELSE Lookup(bash_example, p.type)
       ELSE <<"-", "-">> \o p.name \o <<"=">> \o val

-----------------------------------------------------------------------------
(* SpecParam: one CmdParam, built from any descriptor, and its methods *)

\* The longest range text has MaxRange entries.
MaxRange == 2

Digits == <<"0", "1", "2", "3", "4", "5", "6", "7", "8", "9">>

\* "5", "5|6", "5|6|7", ...: a range text of k entries.
RECURSIVE RangeText(_)
RangeText(k) ==
    IF k = 1 THEN <<"5">> ELSE RangeText(k - 1) \o <<"|", Digits[5 + k]>>

s_CephFoo == <<"C", "e", "p", "h", "F", "o", "o">>
s_format == <<"f", "o", "r", "m", "a", "t">>
s_json_plain == <<"j", "s", "o", "n", "|", "p", "l", "a", "i", "n">>

TypeTags == DOMAIN bash_example \cup {s_CephFoo}

\* The descriptors: every known type tag and an unknown one, each optional
\* attribute absent (its default) and present.
Descriptors ==
    [type : TypeTags,
     name : {s_who, s_format},
     who : {None, <<"x">>},
     n : {None, s_N},
     req : {True, s_false},
     range : {None, <<>>} \cup {RangeText(k) : k \in 1..MaxRange},
     strings : {None, s_json_plain},
     goodchars : {None, <<"[", "a", "-", "z", "]">>}]

InitParam ==
    /\ kw \in Descriptors
    /\ param = <<>>
    /\ call = <<"input">>
    /\ ret = None
    /\ fs = None /\ entry = None /\ cmd = <<>>
    /\ all = None /\ sigs = None /\ pc = None /\ msg = None
    /\ stdout = None /\ err = None

\* CmdParam(**kw): the object, or the AssertionError of its last line.
ParamInit ==
    /\ call = <<"input">>
    /\ call' = <<"__init__">>
    /\ IF kw.who = None
       THEN param' = <<CmdParam_init(kw)>> /\ ret' = None
       ELSE param' = <<>> /\ ret' = AssertionError
    /\ UNCHANGED <<fs, kw, entry, cmd, all, sigs, pc, msg, stdout, err>>

ParamHelp ==
    /\ param # <<>>
    /\ call' = <<"help">>
    /\ ret' = help(param[1])
    /\ UNCHANGED <<fs, kw, param, entry, cmd, all, sigs, pc, msg, stdout, err>>

ParamExampleValue ==
    /\ param # <<>>
    /\ call' = <<"mk_example_value">>
    /\ ret' = mk_example_value(param[1])
    /\ UNCHANGED <<fs, kw, param, entry, cmd, all, sigs, pc, msg, stdout, err>>

ParamBashExample ==
    /\ param # <<>>
    /\ \E simple \in BOOLEAN :
           /\ call' = <<"mk_bash_example", simple>>
           /\ ret' = CmdParam_mk_bash_example(param[1], simple)
    /\ UNCHANGED <<fs, kw, param, entry, cmd, all, sigs, pc, msg, stdout, err>>

NextParam == ParamInit \/ ParamHelp \/ ParamExampleValue \/ ParamBashExample

SpecParam == InitParam /\ [][NextParam]_vars

\* The text of s before its first "|".
FirstPiece(s) ==
    LET n == CHOOSE m \in 0..Len(s) :
                 /\ \A i \in 1..m : s[i] # "|"
                 /\ m = Len(s) \/ s[m + 1] = "|"
    IN SubSeq(s, 1, n)

\* s with every character c replaced by the text r.
RECURSIVE Replace(_, _, _)
Replace(s, c, r) ==
    IF s = <<>> THEN <<>>
    ELSE (IF Head(s) = c THEN r ELSE <<Head(s)>>) \o Replace(Tail(s), c, r)

\* C5: for a parameter of a known type, mk_bash_example(simple) is "--<name>"
\* for a boolean; else, when simple, the first allowed value of a choice-string
\* with allowed values, "my_<name>" for a plain string not named "who", and the
\* type's example literal otherwise (a range does not matter); else, when not
\* simple, "--<name>=<v>" with v the first allowed value of a choice-string
\* with allowed values, else the first range entry, else the example literal.
C5_ParamExample ==
    (call[1] = "mk_bash_example" /\ kw.type \in DOMAIN bash_example) =>
        LET simple == call[2]
            choice == kw.type = s_CephChoices /\ Truthy(kw.strings)
            v == IF choice THEN FirstPiece(kw.strings)
                 ELSE IF Truthy(kw.range) THEN FirstPiece(kw.range)
                 ELSE bash_example[kw.type]
        IN ret = IF kw.type = s_CephBool THEN <<"-", "-">> \o kw.name
                 ELSE IF simple
                      THEN IF choice THEN FirstPiece(kw.strings)
                           ELSE IF kw.type = s_CephString /\ kw.name # s_who
                                THEN <<"m", "y", "_">> \o kw.name
                           ELSE bash_example[kw.type]
                 ELSE <<"-", "-">> \o kw.name \o <<"=">> \o v

\* An integer with a range, in the simple mode: the example literal "1", not
\* the first range entry.
C5_Witness ==
    /\ call = <<"mk_bash_example", TRUE>>
    /\ kw.type = s_CephInt
    /\ kw.range = <<"5", "|", "6">>
    /\ ret = <<"1">>

\* The fragments of help() that apply to a descriptor, in their order.
HelpFragments(d) ==
    (IF d.type # s_CephString THEN <<d.type \o <<" ">> >> ELSE <<>>)
    \o (IF Truthy(d.range)
        THEN << <<"r", "a", "n", "g", "e", "=", " ", BQ, BQ>> \o Replace(d.range, "|", <<".", ".">>) \o <<BQ, BQ, " ">> >>
        ELSE <<>>)
    \o (IF Truthy(d.strings)
        THEN << <<"s", "t", "r", "i", "n", "g", "s", "=", "(">> \o Replace(d.strings, "|", <<" ">>) \o <<")", " ">> >>
        ELSE <<>>)
    \o (IF Truthy(d.goodchars)
        THEN << <<"g", "o", "o", "d", "c", "h", "a", "r", "s", "=", " ", BQ, BQ>> \o d.goodchars \o <<BQ, BQ, " ">> >>
        ELSE <<>>)
    \o (IF d.n = s_N THEN << <<"(", "c", "a", "n", " ", "b", "e", " ", "r", "e", "p", "e", "a", "t", "e", "d", ")">> >> ELSE <<>>)

s_string_marker == <<"(", "s", "t", "r", "i", "n", "g", ")">>

\* C9: help() is the applicable fragments (type tag unless the type is the
\* default string type, range joined with "..", allowed values space-joined in
\* parentheses, character constraint, repetition marker) in this order, joined
\* with a space; it is "(string)" if and only if no fragment applies, and then
\* only; "(string)" never comes with another fragment.
C9_HelpFragments ==
    call[1] = "help" =>
        LET F == HelpFragments(kw)
            plain == /\ kw.type = s_CephString
                     /\ ~Truthy(kw.range) /\ ~Truthy(kw.strings)
                     /\ ~Truthy(kw.goodchars) /\ kw.n # s_N
        IN /\ F # <<>> => ret = Join(<<" ">>, F)
           /\ (ret = s_string_marker) <=> plain
           /\ plain <=> (F = <<>>)
           /\ ~plain => ~In(s_string_marker, ret)

\* A parameter to which all five fragments apply.
C9_Witness ==
    /\ call[1] = "help"
    /\ kw.type = s_CephInt /\ kw.range = <<"5", "|", "6">>
    /\ kw.strings = s_json_plain /\ Truthy(kw.goodchars) /\ kw.n = s_N
    /\ Len(HelpFragments(kw)) = 5
    /\ ret = Join(<<" ">>, HelpFragments(kw))

-----------------------------------------------------------------------------
(* class CmdCommand *)

\* An element of a raw signature: a literal token (a str) or a parameter
\* descriptor (a dict).
Str(tok) == <<"str", tok>>
Dict(d) == <<"dict", d>>
isinstance_str(x) == x[1] = "str"

\* [f(x) for x in xs if isinstance(x, str)] and its complement, f the content.
RECURSIVE Literals(_)
Literals(xs) ==
    IF xs = <<>> THEN <<>>
    ELSE (IF isinstance_str(xs[1]) THEN <<xs[1][2]>> ELSE <<>>) \o Literals(Tail(xs))

RECURSIVE Descriptors_of(_)
Descriptors_of(xs) ==
    IF xs = <<>> THEN <<>>
    ELSE (IF ~isinstance_str(xs[1]) THEN <<xs[1][2]>> ELSE <<>>)
         \o Descriptors_of(Tail(xs))

\* One step of list.sort on the key p.req (False < True): p goes after every
\* element whose key is not greater.
RECURSIVE InsertByReq(_, _)
InsertByReq(p, ps) ==
    IF ps = <<>> THEN <<p>>
    ELSE IF ~p.req /\ ps[1].req THEN <<p>> \o ps
    ELSE <<ps[1]>> \o InsertByReq(p, Tail(ps))

\* list.sort(key=lambda p: p.req): ascending and stable.
RECURSIVE SortByReq(_)
SortByReq(ps) ==
    IF ps = <<>> THEN <<>>
    ELSE InsertByReq(ps[Len(ps)], SortByReq(SubSeq(ps, 1, Len(ps) - 1)))

\* An ascending sort that is reversed afterwards: equal keys change places.
sorted_by_req_reverse_unstable(ps) == Reverse(SortByReq(ps))

\* sorted(ps, key=lambda p: p.req, reverse=True): the list is reversed,
\* sorted ascending and reversed again, which keeps the sort stable.
sorted_by_req_reverse(ps) == Reverse(SortByReq(Reverse(ps)))

\* CmdCommand.__init__ raises the AssertionError of a CmdParam.
CmdCommand_init_raises(e) ==
    \E i \in 1..Len(e.sig) : ~isinstance_str(e.sig[i]) /\ e.sig[i][2].who # None

\* CmdCommand.__init__: the object's attributes.
CmdCommand_init(e) ==
    LET ds == Descriptors_of(e.sig)
    IN [sig |-> Literals(e.sig),
        params |-> sorted_by_req_reverse([i \in 1..Len(ds) |-> CmdParam_init(ds[i])]),
        help |-> e.desc,
        module |-> e.module,
        perm |-> e.perm,
        flags |-> e.flags,
        needs_overload |-> FALSE]

\* CmdCommand.prefix
prefix(c) == Join(<<" ">>, c.sig)

\* is_reasonably_simple with the limit off by one.
is_reasonably_simple_ge3(c) ==
    IF Len(c.params) >= 3 THEN FALSE
    ELSE IF \E i \in 1..Len(c.params) : c.params[i].n THEN FALSE
    ELSE TRUE

\* CmdCommand.is_reasonably_simple
is_reasonably_simple(c) ==
    IF Len(c.params) > 3 THEN FALSE
    ELSE IF \E i \in 1..Len(c.params) : c.params[i].n THEN FALSE
    ELSE TRUE

\* CmdCommand.mk_bash_example: the line, or the KeyError of a parameter.
CmdCommand_mk_bash_example(c) ==
    LET simple == is_reasonably_simple(c)
        toks == [i \in 1..Len(c.params) |->
                     CmdParam_mk_bash_example(c.params[i], simple)]
    IN IF \E i \in 1..Len(toks) : toks[i] = KeyError THEN KeyError
       ELSE Join(<<" ">>, <<<<"c", "e", "p", "h">>, prefix(c)>> \o toks)

-----------------------------------------------------------------------------
(* SpecCommand: one CmdCommand, built from any record, and its methods *)

\* The longest raw signature has MaxSig elements.
MaxSig == 5

s_mon == <<"m", "o", "n">>
s_force == <<"f", "o", "r", "c", "e">>

\* A descriptor that gives only its type and name.
Desc(type, name) ==
    [type |-> type, name |-> name, who |-> None, n |-> None, req |-> True,
     range |-> None, strings |-> None, goodchars |-> None]

\* The elements the raw signatures are made of: a literal token, two required
\* and two optional parameters (one of the required repeatable), and a
\* parameter with the `who` attribute.
SigItems ==
    {Str(s_mon),
     Dict(Desc(s_CephString, s_format)),
     Dict([Desc(s_CephInt, s_who) EXCEPT !.req = s_false, !.range = RangeText(2)]),
     Dict([Desc(s_CephBool, s_force) EXCEPT !.req = s_false]),
     Dict([Desc(s_CephChoices, s_format) EXCEPT !.n = s_N, !.strings = s_json_plain]),
     Dict([Desc(s_CephString, s_who) EXCEPT !.who = <<"x">>])}

RawSigs == UNION {[1..k -> SigItems] : k \in 0..MaxSig}

InitCommand ==
    /\ \E sig \in RawSigs :
           entry = [sig |-> sig, desc |-> <<"d">>, module |-> s_mon,
                    perm |-> <<"r", "w">>, flags |-> 0]
    /\ cmd = <<>>
    /\ call = <<"input">>
    /\ ret = None
    /\ fs = None /\ kw = None /\ param = <<>>
    /\ all = None /\ sigs = None /\ pc = None /\ msg = None
    /\ stdout = None /\ err = None

\* CmdCommand(**entry): the object, or the AssertionError of a parameter.
CommandInit ==
    /\ call = <<"input">>
    /\ call' = <<"__init__">>
    /\ IF CmdCommand_init_raises(entry)
       THEN cmd' = <<>> /\ ret' = AssertionError
       ELSE cmd' = <<CmdCommand_init(entry)>> /\ ret' = None
    /\ UNCHANGED <<fs, kw, param, entry, all, sigs, pc, msg, stdout, err>>

CommandPrefix ==
    /\ cmd # <<>>
    /\ call' = <<"prefix">>
    /\ ret' = prefix(cmd[1])
    /\ UNCHANGED <<fs, kw, param, entry, cmd, all, sigs, pc, msg, stdout, err>>

CommandIsReasonablySimple ==
    /\ cmd # <<>>
    /\ call' = <<"is_reasonably_simple">>
    /\ ret' = is_reasonably_simple(cmd[1])
    /\ UNCHANGED <<fs, kw, param, entry, cmd, all, sigs, pc, msg, stdout, err>>

CommandBashExample ==
    /\ cmd # <<>>
    /\ call' = <<"mk_bash_example">>
    /\ ret' = CmdCommand_mk_bash_example(cmd[1])
    /\ UNCHANGED <<fs, kw, param, entry, cmd, all, sigs, pc, msg, stdout, err>>

NextCommand ==
    CommandInit \/ CommandPrefix \/ CommandIsReasonablySimple \/ CommandBashExample

SpecCommand == InitCommand /\ [][NextCommand]_vars

\* The descriptors of a raw signature, in its order.
RawDescriptors(sig) ==
    LET IsDict(x) == x[1] = "dict"
        ds == SelectSeq(sig, IsDict)
    IN [i \in 1..Len(ds) |-> ds[i][2]]

\* C2: the parameter list of a command is the required parameters of its
\* signature (req absent or anything but "false") in the signature's order,
\* followed by the optional ones (req == "false") in the signature's order.
C2_RequiredFirstStable ==
    cmd # <<>> =>
        LET ds == RawDescriptors(entry.sig)
            Required(d) == d.req # s_false
            Optional(d) == d.req = s_false
            want == SelectSeq(ds, Required) \o SelectSeq(ds, Optional)
        IN /\ Len(cmd[1].params) = Len(ds)
           /\ \A i \in 1..Len(ds) :
                  /\ cmd[1].params[i] = CmdParam_init(want[i])
                  /\ cmd[1].params[i].req = (want[i].req # s_false)

\* A signature optional, required, optional, required whose parameters are
\* four different ones.
C2_Witness ==
    /\ cmd # <<>>
    /\ LET ds == RawDescriptors(entry.sig)
       IN /\ Len(ds) = 4
          /\ ds[1].req = s_false /\ ds[2].req # s_false
          /\ ds[3].req = s_false /\ ds[4].req # s_false
          /\ Cardinality({ds[i] : i \in 1..4}) = 4
          /\ cmd[1].params[1].type = ds[2].type
          /\ cmd[1].params[4].type = ds[3].type

\* The example tokens of the parameters ps, each after one space.
RECURSIVE SpacedTokens(_, _)
SpacedTokens(ps, simple) ==
    IF ps = <<>> THEN <<>>
    ELSE <<" ">> \o CmdParam_mk_bash_example(ps[1], simple)
         \o SpacedTokens(Tail(ps), simple)

\* C6: is_reasonably_simple() is false if and only if the command has more
\* than 3 parameters or a repeatable one (n == "N"); the example invocation
\* is "ceph", the prefix and the example token of every parameter, taken with
\* this value as `simple` and in the order of the parameter list, joined by
\* single spaces; without parameters it is "ceph <prefix>".
C6_SimpleAndExample ==
    LET ds == RawDescriptors(entry.sig)
        simple == ~(Len(ds) > 3 \/ \E i \in 1..Len(ds) : ds[i].n = s_N)
    IN /\ call[1] = "is_reasonably_simple" => (ret = simple)
       /\ call[1] = "mk_bash_example" =>
              /\ ret = <<"c", "e", "p", "h", " ">> \o prefix(cmd[1])
                          \o SpacedTokens(cmd[1].params, simple)
              /\ ds = <<>> => ret = <<"c", "e", "p", "h", " ">> \o prefix(cmd[1])

\* A command of four parameters, none repeatable: not simple by their number.
C6_Witness ==
    /\ call[1] = "mk_bash_example"
    /\ Len(cmd[1].params) = 4
    /\ \A i \in 1..4 : ~cmd[1].params[i].n
    /\ cmd[1].sig = <<s_mon>>
    /\ cmd[1].params[1].type = s_CephString
    /\ SubSeq(ret, 1, 23) = <<"c", "e", "p", "h", " ", "m", "o", "n", " ", "-", "-", "f", "o", "r", "m", "a", "t", "=", "s", "t", "r", "i", "n">>

-----------------------------------------------------------------------------
(* mk_sigs *)

\* a < b on lists of str: the first differing element decides, a proper
\* prefix comes first.
RECURSIVE ListLess(_, _)
ListLess(a, b) ==
    IF b = <<>> THEN FALSE
    ELSE IF a = <<>> THEN TRUE
    ELSE IF a[1] # b[1] THEN StrLess(a[1], b[1])
    ELSE ListLess(Tail(a), Tail(b))

\* One step of list.sort on the key f.sig: c goes after every element whose
\* key is not greater.
RECURSIVE InsertBySig(_, _)
InsertBySig(c, cs) ==
    IF cs = <<>> THEN <<c>>
    ELSE IF ListLess(c.sig, cs[1].sig) THEN <<c>> \o cs
    ELSE <<cs[1]>> \o InsertBySig(c, Tail(cs))

\* The commands left in the order of the manifest.
sorted_by_sig_missing(cs) == cs

\* sorted(sigs, key=lambda f: f.sig): ascending and stable.
RECURSIVE sorted_by_sig(_)
sorted_by_sig(cs) ==
    IF cs = <<>> THEN <<>>
    ELSE InsertBySig(cs[Len(cs)], sorted_by_sig(SubSeq(cs, 1, Len(cs) - 1)))

\* A test of the mask against the hidden bit alone.
is_hidden_exact(c) == c.flags = HIDDEN

\* 'hidden' in s.flags
is_hidden(c) == Flags_contains(c.flags, s_hidden)

\* [s for s in sigs if 'hidden' not in s.flags]
RECURSIVE not_hidden(_)
not_hidden(cs) ==
    IF cs = <<>> THEN <<>>
    ELSE (IF ~is_hidden(cs[1]) THEN <<cs[1]>> ELSE <<>>) \o not_hidden(Tail(cs))

\* What the template renders of one command; the texts go through jinja2's
\* wordwrap and indent filters, which are not part of this program.  The
\* example is evaluated before the parameter list.
Section(c) ==
    [heading |-> prefix(c),
     rule |-> [i \in 1..Len(prefix(c)) |-> "^"],
     help |-> c.help,
     example |-> CmdCommand_mk_bash_example(c),
     params |-> [i \in 1..Len(c.params) |-> <<c.params[i].name, help(c.params[i])>>],
     module |-> c.module,
     perm |-> c.perm,
     flags |-> IF Flags_bool(c.flags) THEN <<Flags_str(c.flags)>> ELSE <<>>]

-----------------------------------------------------------------------------
(* Spec: mk_sigs(all), from the manifest to the printed document *)

\* The longest manifest has MaxCmds records.
MaxCmds == 3

s_add == <<"a", "d", "d">>
s_osd == <<"o", "s", "d">>

\* A record of the manifest.
Entry(sig, module, perm, flags) ==
    [sig |-> sig, desc |-> <<"d">>, module |-> module, perm |-> perm, flags |-> flags]

\* The records the manifests are made of.  Their literal tokens are "mon",
\* "mon add", "osd", "mgr" and "osd add"; some have the same literal tokens
\* and different descriptors; their masks are 0, known bits with and without
\* hidden, and an unknown bit; their parameters are of a known type, of an
\* unknown type (without a range in a simple command, with a range in a
\* command that is not simple), or carry `who`.
Records ==
    {Entry(<<Str(s_mon)>>, s_mon, <<"r", "w">>, 0),
     Entry(<<Str(s_mon), Dict(Desc(s_CephString, s_format)), Str(s_add)>>,
           s_mon, <<"r", "w">>, DEPRECATED),
     Entry(<<Str(s_mon), Str(s_add),
             Dict([Desc(s_CephInt, s_who) EXCEPT !.req = s_false, !.range = RangeText(2)])>>,
           None, <<"r">>, 0),
     Entry(<<Str(s_osd)>>, s_osd, <<"r">>, DEPRECATED + HIDDEN),
     Entry(<<Str(s_osd), Dict(Desc(s_CephBool, s_force))>>, s_osd, None, 64),
     Entry(<<Str(s_osd), Str(s_add), Dict([Desc(s_CephString, s_who) EXCEPT !.who = <<"x">>])>>,
           s_osd, <<"r", "w">>, 0),
     Entry(<<Str(s_osd), Dict([Desc(s_CephString, s_who) EXCEPT !.who = <<"x">>])>>,
           s_osd, <<"r", "w">>, HIDDEN),
     Entry(<<Str(s_mgr), Dict(Desc(s_CephFoo, s_format))>>, s_mgr, <<"r">>, MGR),
     Entry(<<Str(s_mgr), Dict([Desc(s_CephFoo, s_format) EXCEPT !.n = s_N, !.range = RangeText(2)])>>,
           s_mgr, <<"r">>, 0),
     Entry(<<Str(s_mgr), Str(s_add), Dict(Desc(s_CephFoo, s_who))>>,
           s_mgr, <<"r">>, HIDDEN + 64)}

Manifests == UNION {[1..k -> Records] : k \in 0..MaxCmds}

Init ==
    /\ all \in Manifests
    /\ sigs = <<>>
    /\ pc = IF all = <<>> THEN "filter" ELSE "construct"
    /\ msg = <<>>
    /\ stdout = <<>>
    /\ err = None
    /\ fs = None /\ kw = None /\ param = <<>> /\ entry = None /\ cmd = <<>>
    /\ call = <<"mk_sigs">> /\ ret = None

\* sigs = [CmdCommand(**e) for e in all]: the next record becomes a command.
Construct ==
    /\ pc = "construct"
    /\ ~CmdCommand_init_raises(all[Len(sigs) + 1])
    /\ sigs' = Append(sigs, CmdCommand_init(all[Len(sigs) + 1]))
    /\ pc' = IF Len(sigs') = Len(all) THEN "filter" ELSE "construct"
    /\ UNCHANGED <<fs, kw, param, entry, cmd, call, ret, all, msg, stdout, err>>

\* ... or its construction raises, and the exception leaves mk_sigs.
ConstructRaises ==
    /\ pc = "construct"
    /\ CmdCommand_init_raises(all[Len(sigs) + 1])
    /\ err' = AssertionError
    /\ pc' = "failed"
    /\ UNCHANGED <<fs, kw, param, entry, cmd, call, ret, all, sigs, msg, stdout>>

\* sigs = [s for s in sigs if 'hidden' not in s.flags]
Filter ==
    /\ pc = "filter"
    /\ sigs' = not_hidden(sigs)
    /\ pc' = "sort"
    /\ UNCHANGED <<fs, kw, param, entry, cmd, call, ret, all, msg, stdout, err>>

\* sigs = sorted(sigs, key=lambda f: f.sig)
Sort ==
    /\ pc = "sort"
    /\ sigs' = sorted_by_sig(sigs)
    /\ pc' = IF sigs' = <<>> THEN "print" ELSE "render"
    /\ UNCHANGED <<fs, kw, param, entry, cmd, call, ret, all, msg, stdout, err>>

\* tm.render(commands=list(sigs)): the section of the next command.
Render ==
    /\ pc = "render"
    /\ LET c == sigs[Len(msg) + 1]
       IN /\ CmdCommand_mk_bash_example(c) # KeyError
          /\ msg' = Append(msg, Section(c))
    /\ pc' = IF Len(msg') = Len(sigs) THEN "print" ELSE "render"
    /\ UNCHANGED <<fs, kw, param, entry, cmd, call, ret, all, sigs, stdout, err>>

\* ... or its example raises, and the exception leaves render and mk_sigs.
RenderRaises ==
    /\ pc = "render"
    /\ CmdCommand_mk_bash_example(sigs[Len(msg) + 1]) = KeyError
    /\ err' = KeyError
    /\ pc' = "failed"
    /\ UNCHANGED <<fs, kw, param, entry, cmd, call, ret, all, sigs, msg, stdout>>

\* print(msg)
PrintMsg ==
    /\ pc = "print"
    /\ stdout' = <<msg>>
    /\ pc' = "done"
    /\ UNCHANGED <<fs, kw, param, entry, cmd, call, ret, all, sigs, msg, err>>

Next ==
    Construct \/ ConstructRaises \/ Filter \/ Sort \/ Render \/ RenderRaises \/ PrintMsg

Spec == Init /\ [][Next]_vars

\* The literal tokens of a record's raw signature, in its order.
RecLiterals(e) ==
    LET IsStr(x) == x[1] = "str"
        ls == SelectSeq(e.sig, IsStr)
    IN [i \in 1..Len(ls) |-> ls[i][2]]

\* The hidden bit of a record's mask.
RecHidden(e) == BitSet(e.flags, 5)

\* mk_sigs has handed sigs to the renderer.
Handed == pc \in {"render", "print", "done"} \/ (pc = "failed" /\ err = KeyError)

\* C1: a command whose mask has the hidden bit, alone or with any other bits,
\* is never in the sequence handed to the renderer, whatever its other fields;
\* every command whose mask has not is in it.
C1_HiddenNeverRendered ==
    Handed =>
        /\ \A j \in 1..Len(sigs) : ~BitSet(sigs[j].flags, 5)
        /\ \A i \in 1..Len(all) :
               ~RecHidden(all[i]) =>
                   \E j \in 1..Len(sigs) : sigs[j] = CmdCommand_init(all[i])
        /\ Len(sigs) = Cardinality({i \in 1..Len(all) : ~RecHidden(all[i])})
        /\ \A j \in 1..Len(msg) : msg[j].heading = prefix(sigs[j])

\* A manifest with deprecated|hidden, with hidden|unknown bit and with an
\* unknown bit alone: only the last command is printed.
C1_Witness ==
    /\ pc = "done"
    /\ \E i \in 1..Len(all) : all[i].flags = DEPRECATED + HIDDEN
    /\ \E i \in 1..Len(all) : all[i].flags = HIDDEN + 64
    /\ \E i \in 1..Len(all) : all[i].flags = 64
    /\ Len(sigs) = 1 /\ Len(stdout[1]) = 1

\* a < b on str and on lists of str, by the first place where they differ.
CodeLess(a, b) ==
    \E k \in 1..(Len(a) + 1) :
        /\ k <= Len(b)
        /\ \A i \in 1..(k - 1) : a[i] = b[i]
        /\ k = Len(a) + 1 \/ Ord[a[k]] < Ord[b[k]]

TokensLess(a, b) ==
    \E k \in 1..(Len(a) + 1) :
        /\ k <= Len(b)
        /\ \A i \in 1..(k - 1) : a[i] = b[i]
        /\ k = Len(a) + 1 \/ CodeLess(a[k], b[k])

\* No two records of the manifest have the same raw signature.
DistinctSignatures(m) ==
    \A i, j \in 1..Len(m) : i # j => m[i].sig # m[j].sig

\* No two records of the manifest have the same literal tokens.
DistinctTokenLists(m) ==
    \A i, j \in 1..Len(m) : i # j => RecLiterals(m[i]) # RecLiterals(m[j])

\* What mk_sigs hands to the renderer for the manifest m.
HandedFor(m) == sorted_by_sig(not_hidden([i \in 1..Len(m) |-> CmdCommand_init(m[i])]))

\* C3 as stated: for a manifest whose signatures are pairwise distinct, the
\* sequence handed to the renderer is the non-hidden commands, each once, in
\* ascending lexicographic order of their literal tokens, whatever the order
\* of the records in the manifest (stated of the runs that print).
C3_DistinctSignaturesFixOrder ==
    (pc = "done" /\ DistinctSignatures(all)) =>
        /\ \A j \in 1..(Len(sigs) - 1) : ~TokensLess(sigs[j + 1].sig, sigs[j].sig)
        /\ \A i \in 1..Len(all) :
               ~RecHidden(all[i]) =>
                   \E j \in 1..Len(sigs) : sigs[j] = CmdCommand_init(all[i])
        /\ Len(sigs) = Cardinality({i \in 1..Len(all) : ~RecHidden(all[i])})
        /\ \A q \in Permutations(1..Len(all)) :
               HandedFor([i \in 1..Len(all) |-> all[q[i]]]) = sigs

\* C3, amended: for a manifest whose literal-token lists (the signatures
\* with the parameter descriptors removed) are pairwise distinct, the
\* sequence handed to the renderer is the non-hidden commands, each once, in
\* ascending lexicographic order of their literal tokens, a proper prefix
\* before its extensions, whatever the order of the records in the manifest.
C3_SortedBySignature ==
    (Handed /\ DistinctTokenLists(all)) =>
        /\ \A j \in 1..(Len(sigs) - 1) : TokensLess(sigs[j].sig, sigs[j + 1].sig)
        /\ \A i \in 1..Len(all) :
               ~RecHidden(all[i]) =>
                   \E j \in 1..Len(sigs) : sigs[j] = CmdCommand_init(all[i])
        /\ Len(sigs) = Cardinality({i \in 1..Len(all) : ~RecHidden(all[i])})
        /\ \A q \in Permutations(1..Len(all)) :
               HandedFor([i \in 1..Len(all) |-> all[q[i]]]) = sigs

\* "osd", "mon add", "mon" in the manifest are printed as "mon", "mon add",
\* "osd".
C3_Witness ==
    /\ pc = "done"
    /\ Len(all) = 3 /\ DistinctTokenLists(all)
    /\ RecLiterals(all[1]) = <<s_osd>>
    /\ RecLiterals(all[2]) = <<s_mon, s_add>>
    /\ RecLiterals(all[3]) = <<s_mon>>
    /\ Len(sigs) = 3
    /\ sigs[1].sig = <<s_mon>> /\ sigs[2].sig = <<s_mon, s_add>> /\ sigs[3].sig = <<s_osd>>
    /\ Len(stdout[1]) = 3

\* The record carries `who` in one of its descriptors.
RecHasWho(e) ==
    \E k \in 1..Len(e.sig) : e.sig[k][1] = "dict" /\ e.sig[k][2].who # None

\* C7: when a descriptor of any command of the manifest carries `who`, the
\* construction fails and the run ends in an error without printing anything
\* and without rendering anything, also for the commands before the offending
\* record and for the well-formed ones.
C7_WhoAbortsRun ==
    (\E i \in 1..Len(all) : RecHasWho(all[i])) =>
        /\ stdout = <<>> /\ msg = <<>>
        /\ pc \in {"construct", "failed"}
        /\ pc = "failed" <=> err = AssertionError
        /\ pc = "construct" =>
               \E i \in (Len(sigs) + 1)..Len(all) : RecHasWho(all[i])
        /\ pc = "failed" => RecHasWho(all[Len(sigs) + 1])

\* Two well-formed commands are built, the third record carries `who`.
C7_Witness ==
    /\ pc = "failed" /\ err = AssertionError
    /\ Len(all) = 3 /\ Len(sigs) = 2
    /\ ~RecHidden(all[1]) /\ ~RecHidden(all[2])
    /\ RecHasWho(all[3])
    /\ stdout = <<>>

\* The descriptor's type tag is none of the fixed ones.
UnknownType(d) == d.type \notin DOMAIN bash_example

\* The record's command is reasonably simple.
RecSimple(e) ==
    LET ds == RawDescriptors(e.sig)
    IN Len(ds) <= 3 /\ \A k \in 1..Len(ds) : ds[k].n # s_N

\* The record has a parameter of an unknown type.
RecUnknown(e) ==
    LET ds == RawDescriptors(e.sig)
    IN \E k \in 1..Len(ds) : UnknownType(ds[k])

\* The record has a parameter of an unknown type whose example needs the
\* lookup of the type: it has no range, or the command is simple.
RecNeedsLookup(e) ==
    LET ds == RawDescriptors(e.sig)
    IN \E k \in 1..Len(ds) :
           UnknownType(ds[k]) /\ (~Truthy(ds[k].range) \/ RecSimple(e))

\* C8 as stated: a non-hidden command with a parameter of an unknown type
\* makes the run fail and nothing is printed, whatever the parameter's other
\* attributes.
C8_UnknownTypeAlwaysFatal ==
    (\E i \in 1..Len(all) : ~RecHidden(all[i]) /\ RecUnknown(all[i])) =>
        /\ stdout = <<>>
        /\ pc # "done"

\* C8, amended: a non-hidden command with a parameter of an unknown type
\* makes the run fail and nothing is printed when the parameter has no range
\* or its command is reasonably simple; when every such parameter has a range
\* and is in a command that is not reasonably simple, and no descriptor
\* carries `who`, the run does not fail and the document is printed.
C8_UnknownTypeFatalOnLookup ==
    /\ (\E i \in 1..Len(all) : ~RecHidden(all[i]) /\ RecNeedsLookup(all[i])) =>
           /\ stdout = <<>>
           /\ pc \notin {"print", "done"}
           /\ pc = "failed" => err \in {KeyError, AssertionError}
           /\ pc = "render" =>
                  \E j \in (Len(msg) + 1)..Len(sigs) :
                      CmdCommand_mk_bash_example(sigs[j]) = KeyError
    /\ ((\A i \in 1..Len(all) :
             ~RecHasWho(all[i]) /\ (RecHidden(all[i]) \/ ~RecNeedsLookup(all[i]))) =>
           /\ err = None /\ pc # "failed"
           /\ pc = "done" => stdout = <<msg>> /\ Len(msg) = Len(sigs))

\* A command of an unknown type with a range and a repeatable parameter is
\* rendered, then one of an unknown type without a range raises KeyError.
C8_Witness ==
    /\ pc = "failed" /\ err = KeyError
    /\ Len(msg) = 1
    /\ msg[1].example = <<"c", "e", "p", "h", " ", "m", "g", "r", " ", "-", "-", "f", "o", "r", "m", "a", "t", "=", "5">>
    /\ RecUnknown(all[1]) /\ ~RecNeedsLookup(all[1])
    /\ stdout = <<>>

====
